---- MODULE Spec2Model ----
(***************************************************************************)
(* Model of the chat personality engine: the MemoryExtractor               *)
(* (memory_extractor.py) and the PersonalityEngine (personality_engine.py). *)
(*                                                                         *)
(* A Python str is a sequence of one-character strings, so that lower(),   *)
(* replace(), split(), strip(), the substring test and re.search are       *)
(* computed character by character.  An optional value (None or a value)  *)
(* is a sequence of length at most one: None is << >>, the value v is      *)
(* <<v>>.  A dict is a function whose domain is its set of keys.           *)
(***************************************************************************)
EXTENDS Integers, Sequences, FiniteSets, TLC

VARIABLES
    pc,             \* "idle" before the call, then the name of the call made
    messages,       \* the message list handed to the extractor
    result,         \* what the extractor call returned
    memory,         \* PersonalityEngine.memory
    base_response,  \* the text handed to the engine
    style,          \* the style name handed to rewrite_response
    output,         \* the text the engine call returned (None if none)
    raised,         \* the error the engine call raised (None if none)
    extractor,      \* the attributes of the MemoryExtractor object
    log             \* the calls made on the two objects, with what they returned

vars == <<pc, messages, result, memory, base_response, style, output, raised,
          extractor, log>>

(***************************************************************************)
(* Bounds of the model.                                                    *)
(***************************************************************************)
\* longest message list handed to an extractor call
MaxMessages == 2
\* most phrases a base response is put together from
MaxPhrases == 2
\* most calls made one after the other on the same extractor and engine
MaxCalls == 3

(***************************************************************************)
(* Python values.                                                          *)
(***************************************************************************)
None == << >>
Some(v) == <<v>>

UpperLetters == <<"A","B","C","D","E","F","G","H","I","J","K","L","M","N","O","P","Q","R","S","T","U","V","W","X","Y","Z">>
LowerLetters == <<"a","b","c","d","e","f","g","h","i","j","k","l","m","n","o","p","q","r","s","t","u","v","w","x","y","z">>
Digits == <<"0","1","2","3","4","5","6","7","8","9">>

SeqRange(s) == {s[k] : k \in 1..Len(s)}

UpperSet == SeqRange(UpperLetters)
LowerSet == SeqRange(LowerLetters)
DigitSet == SeqRange(Digits)
\* what \s matches and strip() removes
Whitespace == {" ", "\t", "\n", "\r", "\f"}

LetterIndex == [c \in UpperSet \cup LowerSet |->
                  CHOOSE k \in 1..26 : UpperLetters[k] = c \/ LowerLetters[k] = c]

LowerChar(c) == IF c \in UpperSet THEN LowerLetters[LetterIndex[c]] ELSE c
UpperChar(c) == IF c \in LowerSet THEN UpperLetters[LetterIndex[c]] ELSE c

\* str.lower()
Lower(s) == [k \in 1..Len(s) |-> LowerChar(s[k])]

\* s[i:i+len(p)] == p
StartsWithAt(s, p, i) ==
    /\ i + Len(p) - 1 <= Len(s)
    /\ \A k \in 1..Len(p) : s[i + k - 1] = p[k]

\* the operator `p in s` on strings
Contains(s, p) == \E i \in 1..(Len(s) - Len(p) + 1) : StartsWithAt(s, p, i)

\* str.find from position i (1-based); 0 when p does not occur
Find(s, p, i) ==
    LET hits == {j \in i..(Len(s) - Len(p) + 1) : StartsWithAt(s, p, j)}
    IN  IF hits = {} THEN 0 ELSE CHOOSE j \in hits : \A h \in hits : j <= h

\* s[i:] for a 1-based i
From(s, i) == SubSeq(s, i, Len(s))

\* str.replace(old, new) for a non-empty old: every non-overlapping
\* occurrence, found from left to right
RECURSIVE Replace(_, _, _)
Replace(s, old, new) ==
    LET j == Find(s, old, 1)
    IN  IF j = 0 THEN s
        ELSE SubSeq(s, 1, j - 1) \o new \o Replace(From(s, j + Len(old)), old, new)

\* str.split(sep) for a non-empty sep
RECURSIVE Split(_, _)
Split(s, sep) ==
    LET j == Find(s, sep, 1)
    IN  IF j = 0 THEN <<s>>
        ELSE <<SubSeq(s, 1, j - 1)>> \o Split(From(s, j + Len(sep)), sep)

\* str.strip()
Strip(s) ==
    LET keep == {k \in 1..Len(s) : s[k] \notin Whitespace}
    IN  IF keep = {} THEN << >>
        ELSE SubSeq(s, CHOOSE a \in keep : \A k \in keep : a <= k,
                       CHOOSE b \in keep : \A k \in keep : b >= k)

\* int() of a string of decimal digits
DigitValue == [c \in DigitSet |-> (CHOOSE k \in 1..10 : Digits[k] = c) - 1]
RECURSIVE ParseInt(_)
ParseInt(s) == IF s = << >> THEN 0 ELSE 10 * ParseInt(SubSeq(s, 1, Len(s) - 1)) + DigitValue[s[Len(s)]]

\* `x in xs` on a list
InList(x, xs) == \E k \in 1..Len(xs) : xs[k] = x

\* "".join(parts)
RECURSIVE Concat(_)
Concat(parts) == IF parts = << >> THEN << >> ELSE Head(parts) \o Concat(Tail(parts))

\* the lists of length at most n over the elements of pool
RECURSIVE ListsUpTo(_, _)
ListsUpTo(pool, n) ==
    IF n = 0 THEN {<< >>}
    ELSE LET shorter == ListsUpTo(pool, n - 1)
         IN  shorter \cup {Append(l, x) : l \in {m \in shorter : Len(m) = n - 1}, x \in pool}

(***************************************************************************)
(* Regular expressions (module re), as far as the extractor's patterns     *)
(* use them: literals, character classes, concatenation, alternation,      *)
(* greedy and lazy repetition, capture groups and $.  A match state is     *)
(* [p |-> position reached, g |-> the groups' (start, end) so far]; a      *)
(* matcher returns every way to match in the order the backtracking        *)
(* search tries them, so the first one is the match re.search returns.     *)
(***************************************************************************)
Unbounded == 1000000

RxLit(str) == [t |-> "lit", s |-> str]
RxSet(cs) == [t |-> "set", cs |-> cs, neg |-> FALSE]
RxNot(cs) == [t |-> "set", cs |-> cs, neg |-> TRUE]
RxCat(ns) == [t |-> "cat", ns |-> ns]
RxAlt(ns) == [t |-> "alt", ns |-> ns]
RxRep(n, min, max, greedy) == [t |-> "rep", n |-> n, min |-> min, max |-> max, greedy |-> greedy]
RxGrp(k, n) == [t |-> "grp", k |-> k, n |-> n]
RxEnd == [t |-> "end"]

RxOpt(n) == RxRep(n, 0, 1, TRUE)
RxPlus(n) == RxRep(n, 1, Unbounded, TRUE)
RxLazyPlus(n) == RxRep(n, 1, Unbounded, FALSE)

\* one character against a class, with or without re.IGNORECASE
InClass(c, cs, neg, ic) ==
    LET in == \/ c \in cs
              \/ ic /\ (LowerChar(c) \in cs \/ UpperChar(c) \in cs)
    IN  in # neg

\* a literal at position p, with or without re.IGNORECASE
LitAt(s, lit, p, ic) ==
    /\ p + Len(lit) - 1 <= Len(s)
    /\ \A k \in 1..Len(lit) :
          \/ s[p + k - 1] = lit[k]
          \/ ic /\ LowerChar(s[p + k - 1]) = LowerChar(lit[k])

\* $ matches at the end of the string and before a newline that ends it
AtEnd(s, p) == p = Len(s) + 1 \/ (p = Len(s) /\ s[p] = "\n")

RECURSIVE RxM(_, _, _, _)
RECURSIVE RxEach(_, _, _, _)
RECURSIVE RxCatM(_, _, _, _, _)
RECURSIVE RxAltM(_, _, _, _, _)
RECURSIVE RxRepM(_, _, _, _, _, _)
RECURSIVE RxRepEach(_, _, _, _, _, _, _)

\* node n from every state of sts, in order
RxEach(n, s, ic, sts) ==
    IF sts = << >> THEN << >>
    ELSE RxM(n, s, ic, Head(sts)) \o RxEach(n, s, ic, Tail(sts))

\* nodes ns[k], ns[k+1], ... one after the other
RxCatM(ns, k, s, ic, sts) ==
    IF k > Len(ns) \/ sts = << >> THEN sts
    ELSE RxCatM(ns, k + 1, s, ic, RxEach(ns[k], s, ic, sts))

\* alternatives ns[k], ns[k+1], ... in the order written
RxAltM(ns, k, s, ic, st) ==
    IF k > Len(ns) THEN << >>
    ELSE RxM(ns[k], s, ic, st) \o RxAltM(ns, k + 1, s, ic, st)

\* one more repetition from each state of sts that moved on from position p
RxRepEach(n, min, max, s, ic, sts, p) ==
    IF sts = << >> THEN << >>
    ELSE (IF Head(sts).p > p THEN RxRepM(n, min, max, s, ic, Head(sts)) ELSE << >>)
         \o RxRepEach(n, min, max, s, ic, Tail(sts), p)

\* how many characters from position p on are in a class, max at most
RunLength(s, p, cs, neg, ic, max) ==
    LET most == IF Len(s) - p + 1 < max THEN Len(s) - p + 1 ELSE max
        runs == {l \in 0..most : \A k \in 1..l : InClass(s[p + k - 1], cs, neg, ic)}
    IN  CHOOSE l \in runs : \A r \in runs : l >= r

\* between min and max repetitions of a character class: every length from
\* the longest run down to min for the greedy form, from min up for the lazy
RxRepSet(n, s, ic, st) ==
    LET run == RunLength(s, st.p, n.n.cs, n.n.neg, ic, n.max)
        count == IF run >= n.min THEN run - n.min + 1 ELSE 0
    IN  [j \in 1..count |->
            [st EXCEPT !.p = @ + (IF n.greedy THEN run - j + 1 ELSE n.min + j - 1)]]

\* between min and max repetitions of n.n: the greedy form tries one more
\* repetition before it tries to stop, the lazy form the other way round
RxRepM(n, min, max, s, ic, st) ==
    LET more == IF max = 0 THEN << >>
                ELSE RxRepEach(n, IF min = 0 THEN 0 ELSE min - 1, max - 1, s, ic,
                               RxM(n.n, s, ic, st), st.p)
        stop == IF min = 0 THEN <<st>> ELSE << >>
    IN  IF n.greedy THEN more \o stop ELSE stop \o more

RxM(n, s, ic, st) ==
    CASE n.t = "lit" -> IF LitAt(s, n.s, st.p, ic)
                        THEN <<[st EXCEPT !.p = @ + Len(n.s)]>> ELSE << >>
      [] n.t = "set" -> IF st.p <= Len(s) /\ InClass(s[st.p], n.cs, n.neg, ic)
                        THEN <<[st EXCEPT !.p = @ + 1]>> ELSE << >>
      [] n.t = "end" -> IF AtEnd(s, st.p) THEN <<st>> ELSE << >>
      [] n.t = "cat" -> RxCatM(n.ns, 1, s, ic, <<st>>)
      [] n.t = "alt" -> RxAltM(n.ns, 1, s, ic, st)
      [] n.t = "grp" -> LET rs == RxM(n.n, s, ic, st)
                        IN  [j \in 1..Len(rs) |-> [rs[j] EXCEPT !.g[n.k] = <<st.p, rs[j].p>>]]
      [] n.t = "rep" -> IF n.n.t = "set" THEN RxRepSet(n, s, ic, st)
                        ELSE RxRepM(n, n.min, n.max, s, ic, st)

\* a match object: the groups' texts; None when the pattern matches nowhere
RxStart(p) == [p |-> p, g |-> <<<<0, 0>>, <<0, 0>>>>]
\* the leftmost position from p on where the pattern matches; 0 if none
FirstStart(n, s, ic, p) ==
    LET starts == {q \in p..(Len(s) + 1) : RxM(n, s, ic, RxStart(q)) # << >>}
    IN  IF starts = {} THEN 0 ELSE CHOOSE q \in starts : \A h \in starts : q <= h

\* the match object of a match that starts at q and went to state r
MatchObject(s, q, r) ==
    Some([start |-> q, end |-> r.p,
          group |-> [k \in 1..2 |-> SubSeq(s, r.g[k][1], r.g[k][2] - 1)]])

\* the first way to match at position q; None when q is 0
MatchFrom(n, s, ic, q) ==
    IF q = 0 THEN None ELSE MatchObject(s, q, RxM(n, s, ic, RxStart(q))[1])

SearchFrom(n, s, ic, p) == MatchFrom(n, s, ic, FirstStart(n, s, ic, p))

\* re.search(pattern, s) and re.search(pattern, s, re.IGNORECASE)
re_search(n, s, ic) == SearchFrom(n, s, ic, 1)

\* re.sub(pattern, '', s): every non-overlapping match removed
RECURSIVE re_sub_empty(_, _)
RECURSIVE RemoveMatch(_, _, _)

\* s without the match m and without the matches after it
RemoveMatch(n, s, m) ==
    IF m = None THEN s
    ELSE IF m[1].end = m[1].start
         THEN s
         ELSE SubSeq(s, 1, m[1].start - 1) \o re_sub_empty(n, From(s, m[1].end))

re_sub_empty(n, s) == RemoveMatch(n, s, re_search(n, s, FALSE))

(***************************************************************************)
(* MemoryExtractor.extract_personal_facts                                  *)
(***************************************************************************)
Letter == UpperSet \cup LowerSet
\* [A-Z][a-z]+
CapWord == RxCat(<<RxSet(UpperSet), RxPlus(RxSet(LowerSet))>>)
\* [A-Z][a-zA-Z\s]+
CapPhrase == RxCat(<<RxSet(UpperSet), RxPlus(RxSet(Letter \cup Whitespace))>>)
\* (?:a |an )?
Article == RxOpt(RxAlt(<<RxLit(<<"a"," ">>), RxLit(<<"a","n"," ">>)>>))
\* [A-Z][a-z]+\s\d{1,2}(?:st|nd|rd|th)?,?\s\d{4}
DateText ==
    RxCat(<<CapWord, RxSet(Whitespace), RxRep(RxSet(DigitSet), 1, 2, TRUE),
            RxOpt(RxAlt(<<RxLit(<<"s","t">>), RxLit(<<"n","d">>), RxLit(<<"r","d">>), RxLit(<<"t","h">>)>>)),
            RxOpt(RxLit(<<",">>)), RxSet(Whitespace), RxRep(RxSet(DigitSet), 4, 4, TRUE)>>)

name_patterns == <<
    RxCat(<<RxLit(<<"m","y"," ","n","a","m","e"," ","i","s"," ">>), RxGrp(1, CapWord)>>),
    RxCat(<<RxLit(<<"i","'","m"," ">>), RxGrp(1, CapWord)>>),
    RxCat(<<RxLit(<<"i"," ","a","m"," ">>), RxGrp(1, CapWord)>>),
    RxCat(<<RxLit(<<"n","a","m","e"," ","i","s"," ">>), RxGrp(1, CapWord)>>) >>

location_patterns == <<
    RxCat(<<RxLit(<<"f","r","o","m"," ">>), RxGrp(1, CapPhrase)>>),
    RxCat(<<RxLit(<<"l","i","v","e"," ","i","n"," ">>), RxGrp(1, CapPhrase)>>),
    RxCat(<<RxLit(<<"i","n"," ">>), RxGrp(1, CapPhrase), RxLit(<<",">>)>>) >>

\* ([a-z\s]+) (?:at|for) ([A-Z][a-zA-Z\s]+)
JobTail ==
    <<RxGrp(1, RxPlus(RxSet(LowerSet \cup Whitespace))), RxLit(<<" ">>),
      RxAlt(<<RxLit(<<"a","t">>), RxLit(<<"f","o","r">>)>>), RxLit(<<" ">>), RxGrp(2, CapPhrase)>>

job_patterns == <<
    RxCat(<<RxLit(<<"w","o","r","k"," ","a","s"," ">>), Article>> \o JobTail),
    RxCat(<<RxLit(<<"i","'","m"," ">>), Article>> \o JobTail),
    RxCat(<<RxLit(<<"i"," ","a","m"," ">>), Article>> \o JobTail) >>

birthday_patterns == <<
    RxCat(<<RxLit(<<"b","i","r","t","h","d","a","y"," ","i","s"," ">>), RxOpt(RxLit(<<"o","n"," ">>)), RxGrp(1, DateText)>>),
    RxCat(<<RxLit(<<"b","o","r","n"," ">>), RxOpt(RxLit(<<"o","n"," ">>)), RxGrp(1, DateText)>>) >>

age_patterns == <<
    RxCat(<<RxLit(<<"t","u","r","n","i","n","g"," ">>), RxGrp(1, RxPlus(RxSet(DigitSet)))>>),
    RxCat(<<RxLit(<<"i","'","m"," ">>), RxGrp(1, RxPlus(RxSet(DigitSet)))>>),
    RxCat(<<RxLit(<<"i"," ","a","m"," ">>), RxGrp(1, RxPlus(RxSet(DigitSet)))>>),
    RxCat(<<RxLit(<<"a","g","e"," ","o","f"," ">>), RxGrp(1, RxPlus(RxSet(DigitSet)))>>) >>

\* allergic to ([^.]+)
allergy_pattern == RxCat(<<RxLit(<<"a","l","l","e","r","g","i","c"," ","t","o"," ">>), RxGrp(1, RxPlus(RxNot({"."})))>>)

ScalarKeys == {"name", "city", "location", "job_role", "company", "birthday", "age"}
ListKeys == {"allergies", "dietary_preferences", "other_facts"}

\* the facts dict as extract_personal_facts creates it
InitialFacts ==
    [name |-> None, city |-> None, location |-> None, job_role |-> None,
     company |-> None, birthday |-> None, age |-> None,
     allergies |-> << >>, dietary_preferences |-> << >>, other_facts |-> << >>]

\* Python's truth value of an optional string and of an optional integer
TruthyStr(o) == o # None /\ o[1] # << >>
TruthyInt(o) == o # None /\ o[1] # 0

\* the first pattern of a list that matches the message (re.IGNORECASE):
\* its match object, or None
RECURSIVE FirstMatch(_, _, _)
RECURSIVE MatchOrNext(_, _, _, _)

\* "if match: ... break", else the next pattern of the list
MatchOrNext(m, patterns, k, message) ==
    IF m # None THEN m ELSE FirstMatch(patterns, k + 1, message)

FirstMatch(patterns, k, message) ==
    IF k > Len(patterns) THEN None
    ELSE MatchOrNext(re_search(patterns[k], message, TRUE), patterns, k, message)

\* facts['name'] = match.group(1)
SetName(facts, m) ==
    IF m # None THEN [facts EXCEPT !.name = Some(m[1].group[1])] ELSE facts

\* "Extract name"
ExtractName(facts, message) ==
    IF ~TruthyStr(facts.name)
    THEN SetName(facts, FirstMatch(name_patterns, 1, message))
    ELSE facts

RECURSIVE LocationFrom(_, _, _)
RECURSIVE SetLocation(_, _, _, _)
RECURSIVE LocationOfMatch(_, _, _, _)

\* "Filter out common false positives": a location that is filtered out
\* does not end the loop over the patterns
SetLocation(facts, location, k, message) ==
    IF location \notin {<<"T","h","e">>, <<"A">>, <<"A","n">>} /\ Len(location) > 2
    THEN [facts EXCEPT !.city = Some(location), !.location = Some(location)]
    ELSE LocationFrom(facts, k + 1, message)

\* location = match.group(1).strip()
LocationOfMatch(facts, m, k, message) ==
    IF m # None
    THEN SetLocation(facts, Strip(m[1].group[1]), k, message)
    ELSE LocationFrom(facts, k + 1, message)

\* "Extract location": the patterns location_patterns[k], ... in order
LocationFrom(facts, k, message) ==
    IF k > Len(location_patterns) THEN facts
    ELSE LocationOfMatch(facts, re_search(location_patterns[k], message, TRUE), k, message)

ExtractLocation(facts, message) ==
    IF ~TruthyStr(facts.city) THEN LocationFrom(facts, 1, message) ELSE facts

\* facts['job_role'] = match.group(1).strip();
\* facts['company'] = match.group(2).strip()
SetJob(facts, m) ==
    IF m # None
    THEN [facts EXCEPT !.job_role = Some(Strip(m[1].group[1])),
                       !.company = Some(Strip(m[1].group[2]))]
    ELSE facts

\* "Extract job"
ExtractJob(facts, message) ==
    IF ~TruthyStr(facts.job_role)
    THEN SetJob(facts, FirstMatch(job_patterns, 1, message))
    ELSE facts

\* facts['birthday'] = match.group(1).strip()
SetBirthday(facts, m) ==
    IF m # None THEN [facts EXCEPT !.birthday = Some(Strip(m[1].group[1]))] ELSE facts

\* "Extract birthday"
ExtractBirthday(facts, message) ==
    IF ~TruthyStr(facts.birthday)
    THEN SetBirthday(facts, FirstMatch(birthday_patterns, 1, message))
    ELSE facts

\* the guard of "Extract age"
AgeUnset(facts) == ~TruthyInt(facts.age)

\* facts['age'] = int(match.group(1))
SetAge(facts, m) ==
    IF m # None THEN [facts EXCEPT !.age = Some(ParseInt(m[1].group[1]))] ELSE facts

\* "Extract age"
ExtractAge(facts, message) ==
    IF AgeUnset(facts)
    THEN SetAge(facts, FirstMatch(age_patterns, 1, message))
    ELSE facts

\* [a.strip() for a in parts]
StripAll(parts) == [k \in 1..Len(parts) |-> Strip(parts[k])]

\* allergy_match.group(1).split('and')
SplitAllergies(text) == Split(text, <<"a","n","d">>)

\* facts['allergies'].extend(allergies)
ExtendAllergies(facts, m) ==
    IF m # None
    THEN [facts EXCEPT !.allergies = @ \o StripAll(SplitAllergies(m[1].group[1]))]
    ELSE facts

\* "Extract allergies"
ExtractAllergies(facts, message_lower) ==
    IF Contains(message_lower, <<"a","l","l","e","r","g","i","c">>)
    THEN ExtendAllergies(facts, re_search(allergy_pattern, message_lower, FALSE))
    ELSE facts

\* "Extract dietary preferences"
ExtractDietary(facts, message_lower) ==
    LET veg == IF Contains(message_lower, <<"v","e","g","e","t","a","r","i","a","n">>) THEN <<<<"v","e","g","e","t","a","r","i","a","n">>>> ELSE << >>
        vegan == IF Contains(message_lower, <<"v","e","g","a","n">>) THEN <<<<"v","e","g","a","n">>>> ELSE << >>
    IN  [facts EXCEPT !.dietary_preferences = @ \o veg \o vegan]

\* the body of the loop over the messages
FactsOfMessage(facts, message) ==
    LET message_lower == Lower(message)
        f1 == ExtractName(facts, message)
        f2 == ExtractLocation(f1, message)
        f3 == ExtractJob(f2, message)
        f4 == ExtractBirthday(f3, message)
        f5 == ExtractAge(f4, message)
        f6 == ExtractAllergies(f5, message_lower)
    IN  ExtractDietary(f6, message_lower)

\* the facts dict after the first n messages
RECURSIVE FactsAfter(_, _)
FactsAfter(msgs, n) ==
    IF n = 0 THEN InitialFacts ELSE FactsOfMessage(FactsAfter(msgs, n - 1), msgs[n])

\* "Clean up None values": the keys whose value is truthy
KeptKeys(facts) ==
    {k \in ScalarKeys : IF k = "age" THEN TruthyInt(facts[k]) ELSE TruthyStr(facts[k])}
    \cup {k \in ListKeys : Len(facts[k]) > 0}

CleanUp(facts) ==
    [k \in KeptKeys(facts) |-> IF k \in ScalarKeys THEN facts[k][1] ELSE facts[k]]

extract_personal_facts(msgs) == CleanUp(FactsAfter(msgs, Len(msgs)))

(***************************************************************************)
(* MemoryExtractor.extract_preferences                                     *)
(***************************************************************************)
like_indicators ==
    <<<<"l","o","v","e">>, <<"e","n","j","o","y">>, <<"l","i","k","e">>, <<"p","r","e","f","e","r">>, <<"f","a","v","o","r","i","t","e">>, <<"f","a","v","o","u","r","i","t","e">>,
      <<"a","d","o","r","e">>, <<"a","p","p","r","e","c","i","a","t","e">>>>
dislike_indicators ==
    <<<<"h","a","t","e">>, <<"d","i","s","l","i","k","e">>, <<"d","o","n","'","t"," ","l","i","k","e">>, <<"c","a","n","'","t"," ","s","t","a","n","d">>, <<"d","e","t","e","s","t">>, <<"l","o","a","t","h","e">>>>

\* \s+([^.!?]+?)(?:\.|!|$)
ObjectTail ==
    <<RxPlus(RxSet(Whitespace)), RxGrp(1, RxLazyPlus(RxNot({".", "!", "?"}))),
      RxAlt(<<RxLit(<<".">>), RxLit(<<"!">>), RxEnd>>)>>

\* rf"{indicator}(?:\s+(?:the|a|an))?\s+([^.!?]+?)(?:\.|!|$)"
IndicatorPattern(indicator) ==
    RxCat(<<RxLit(indicator),
            RxOpt(RxCat(<<RxPlus(RxSet(Whitespace)),
                          RxAlt(<<RxLit(<<"t","h","e">>), RxLit(<<"a">>), RxLit(<<"a","n">>)>>)>>))>>
          \o ObjectTail)

\* r"favorite(?:ite)? (?:is|are)?\s+([^.!?]+?)(?:\.|!|$)"
favorite_pattern ==
    RxCat(<<RxLit(<<"f","a","v","o","r","i","t","e">>), RxOpt(RxLit(<<"i","t","e">>)), RxLit(<<" ">>),
            RxOpt(RxAlt(<<RxLit(<<"i","s">>), RxLit(<<"a","r","e">>)>>))>> \o ObjectTail)

\* r'\s+(especially|like|such as)'
filler_pattern ==
    RxCat(<<RxPlus(RxSet(Whitespace)),
            RxGrp(1, RxAlt(<<RxLit(<<"e","s","p","e","c","i","a","l","l","y">>), RxLit(<<"l","i","k","e">>), RxLit(<<"s","u","c","h"," ","a","s">>)>>))>>)

InitialPreferences == [likes |-> << >>, dislikes |-> << >>, favorites |-> << >>]

\* AppendNew without the test that the item is not on the list yet
AppendUnchecked(items, item) ==
    IF Len(item) > 2 THEN Append(items, item) ELSE items

\* the append of an item to likes or dislikes
AppendNew(items, item) ==
    IF Len(item) > 2 /\ ~InList(item, items) THEN Append(items, item) ELSE items

\* the append of an item to favorites
AppendFavorite(items, item) ==
    IF Len(item) > 2 THEN Append(items, item) ELSE items

\* liked_item = match.group(1).strip(), cleaned of the filler words, appended
AddLike(likes, m) ==
    IF m # None
    THEN AppendNew(likes, re_sub_empty(filler_pattern, Strip(m[1].group[1])))
    ELSE likes

\* "Extract likes": the indicators like_indicators[k], ... in order
RECURSIVE LikesFrom(_, _, _)
LikesFrom(likes, k, message_lower) ==
    IF k > Len(like_indicators) THEN likes
    ELSE LikesFrom(IF Contains(message_lower, like_indicators[k])
                   THEN AddLike(likes, re_search(IndicatorPattern(like_indicators[k]),
                                                 message_lower, FALSE))
                   ELSE likes,
                   k + 1, message_lower)

\* disliked_item = match.group(1).strip(), appended
AddDislike(dislikes, m) ==
    IF m # None THEN AppendNew(dislikes, Strip(m[1].group[1])) ELSE dislikes

\* "Extract dislikes"
RECURSIVE DislikesFrom(_, _, _)
DislikesFrom(dislikes, k, message_lower) ==
    IF k > Len(dislike_indicators) THEN dislikes
    ELSE DislikesFrom(IF Contains(message_lower, dislike_indicators[k])
                      THEN AddDislike(dislikes,
                                      re_search(IndicatorPattern(dislike_indicators[k]),
                                                message_lower, FALSE))
                      ELSE dislikes,
                      k + 1, message_lower)

\* favorite_item = match.group(1).strip(), appended
AddFavorite(favorites, m) ==
    IF m # None THEN AppendFavorite(favorites, Strip(m[1].group[1])) ELSE favorites

\* "Extract favorites"
FavoritesOf(favorites, message_lower) ==
    IF Contains(message_lower, <<"f","a","v","o","r","i","t","e">>) \/ Contains(message_lower, <<"f","a","v","o","u","r","i","t","e">>)
    THEN AddFavorite(favorites, re_search(favorite_pattern, message_lower, FALSE))
    ELSE favorites

\* the body of the loop over the messages
PreferencesOfMessage(preferences, message) ==
    LET message_lower == Lower(message)
    IN  [likes |-> LikesFrom(preferences.likes, 1, message_lower),
         dislikes |-> DislikesFrom(preferences.dislikes, 1, message_lower),
         favorites |-> FavoritesOf(preferences.favorites, message_lower)]

\* the preferences dict after the first n messages
RECURSIVE PreferencesAfter(_, _)
PreferencesAfter(msgs, n) ==
    IF n = 0 THEN InitialPreferences
    ELSE PreferencesOfMessage(PreferencesAfter(msgs, n - 1), msgs[n])

extract_preferences(msgs) == PreferencesAfter(msgs, Len(msgs))

(***************************************************************************)
(* MemoryExtractor.extract_emotions                                        *)
(***************************************************************************)
\* the dict of emotion keywords, in the order of its keys
emotion_keywords == <<
    [emotion |-> "happy",
     keywords |-> <<<<"h","a","p","p","y">>, <<"e","x","c","i","t","e","d">>, <<"p","r","o","u","d">>, <<"g","r","a","t","e","f","u","l">>, <<"j","o","y">>, <<"j","o","y","f","u","l">>,
                    <<"t","h","r","i","l","l","e","d">>, <<"d","e","l","i","g","h","t","e","d">>>>],
    [emotion |-> "sad",
     keywords |-> <<<<"s","a","d">>, <<"m","i","s","s">>, <<"d","e","p","r","e","s","s","e","d">>, <<"d","o","w","n">>, <<"u","n","h","a","p","p","y">>, <<"m","e","l","a","n","c","h","o","l","y">>>>],
    [emotion |-> "anxious",
     keywords |-> <<<<"a","n","x","i","o","u","s">>, <<"w","o","r","r","i","e","d">>, <<"s","t","r","e","s","s","e","d">>, <<"n","e","r","v","o","u","s">>, <<"f","e","a","r">>, <<"a","f","r","a","i","d">>,
                    <<"c","o","n","c","e","r","n","e","d">>>>],
    [emotion |-> "frustrated",
     keywords |-> <<<<"f","r","u","s","t","r","a","t","e","d">>, <<"a","n","n","o","y","e","d">>, <<"i","r","r","i","t","a","t","e","d">>, <<"a","n","g","r","y">>, <<"m","a","d">>, <<"u","p","s","e","t">>>>],
    [emotion |-> "calm",
     keywords |-> <<<<"c","a","l","m">>, <<"p","e","a","c","e","f","u","l">>, <<"r","e","l","a","x","e","d">>, <<"s","e","r","e","n","e">>, <<"t","r","a","n","q","u","i","l">>, <<"c","o","n","t","e","n","t">>>>] >>

Emotions == {emotion_keywords[k].emotion : k \in 1..Len(emotion_keywords)}

\* A Counter is the list of its (key, count) pairs in the order the keys
\* were first counted, which is the order a dict iterates in.
CounterKeys(counter) == [k \in 1..Len(counter) |-> counter[k][1]]

\* counter[key] += 1
Increment(counter, key) ==
    IF \E k \in 1..Len(counter) : counter[k][1] = key
    THEN [k \in 1..Len(counter) |->
            IF counter[k][1] = key THEN <<key, counter[k][2] + 1>> ELSE counter[k]]
    ELSE Append(counter, <<key, 1>>)

\* counter[key] += 1, n times
RECURSIVE IncrementBy(_, _, _)
IncrementBy(counter, key, n) ==
    IF n = 0 THEN counter ELSE Increment(IncrementBy(counter, key, n - 1), key)

\* KeywordLoop without its break: every keyword found counts the message
KeywordLoopNoBreak(counter, emotion, keywords, message_lower) ==
    IncrementBy(counter, emotion,
                Cardinality({k \in 1..Len(keywords) : Contains(message_lower, keywords[k])}))

\* the loop over one emotion's keywords: the first keyword found in the
\* message counts the message and ends the loop ("Count each message only
\* once per emotion")
KeywordLoop(counter, emotion, keywords, message_lower) ==
    IF \E k \in 1..Len(keywords) : Contains(message_lower, keywords[k])
    THEN Increment(counter, emotion)
    ELSE counter

\* "Check for each emotion type": the emotions emotion_keywords[k], ... in order
RECURSIVE EmotionsFrom(_, _, _)
EmotionsFrom(counter, k, message_lower) ==
    IF k > Len(emotion_keywords) THEN counter
    ELSE EmotionsFrom(KeywordLoop(counter, emotion_keywords[k].emotion,
                                  emotion_keywords[k].keywords, message_lower),
                      k + 1, message_lower)

\* emotion_counts after the first n messages
RECURSIVE EmotionCountsAfter(_, _)
EmotionCountsAfter(msgs, n) ==
    IF n = 0 THEN << >>
    ELSE EmotionsFrom(EmotionCountsAfter(msgs, n - 1), 1, Lower(msgs[n]))

\* MaxItem keeping the last of the items with the largest count
RECURSIVE MaxItemLast(_, _, _)
MaxItemLast(counter, k, best) ==
    IF k > Len(counter) THEN best
    ELSE MaxItemLast(counter, k + 1, IF counter[k][2] >= best[2] THEN counter[k] ELSE best)

\* Counter.most_common(1)[0][0]: max() over the items by count, which keeps
\* the first of the items with the largest count
RECURSIVE MaxItem(_, _, _)
MaxItem(counter, k, best) ==
    IF k > Len(counter) THEN best
    ELSE MaxItem(counter, k + 1, IF counter[k][2] > best[2] THEN counter[k] ELSE best)

MostCommon(counter) == MaxItem(counter, 2, counter[1])[1]

\* sum(emotion_counts.values())
RECURSIVE SumCounts(_)
SumCounts(counter) == IF counter = << >> THEN 0 ELSE Head(counter)[2] + SumCounts(Tail(counter))

\* dict(emotion_counts)
AsDict(counter) ==
    [e \in SeqRange(CounterKeys(counter)) |->
        counter[CHOOSE k \in 1..Len(counter) : counter[k][1] = e][2]]

extract_emotions(msgs) ==
    LET emotion_counts == EmotionCountsAfter(msgs, Len(msgs))
    IN  [emotion_counts |-> AsDict(emotion_counts),
         key_order |-> CounterKeys(emotion_counts),
         dominant_emotion |-> IF emotion_counts # << >> THEN Some(MostCommon(emotion_counts))
                              ELSE None,
         total_emotional_messages |-> SumCounts(emotion_counts)]

(***************************************************************************)
(* MemoryExtractor.extract_all                                             *)
(***************************************************************************)
extract_all(msgs) ==
    [personal_facts |-> extract_personal_facts(msgs),
     preferences |-> extract_preferences(msgs),
     emotional_patterns |-> extract_emotions(msgs)]

(***************************************************************************)
(* PersonalityEngine                                                       *)
(***************************************************************************)
EmptyDict == [k \in {} |-> None]

\* PersonalityEngine.__init__: memory_arg is None or Some(dict)
EngineMemory(memory_arg) ==
    IF memory_arg # None /\ DOMAIN memory_arg[1] # {} THEN memory_arg[1] ELSE EmptyDict

\* dict.get(key)
DictGet(d, key) == IF key \in DOMAIN d THEN Some(d[key]) ELSE None

\* get_user_name reading the name from the top level of the memory
get_user_name_top_level(mem) ==
    LET name == DictGet(mem, "name")
    IN  IF DOMAIN mem # {} /\ TruthyStr(name) THEN name[1] ELSE <<"t","h","e","r","e">>

get_user_name(mem) ==
    LET name == DictGet(mem["personal_facts"], "name")
    IN  IF DOMAIN mem # {} /\ "personal_facts" \in DOMAIN mem /\ TruthyStr(name)
        THEN name[1]
        ELSE <<"t","h","e","r","e">>

BlankLine == <<"\n","\n">>

calm_mentor_openings == <<
    <<"I"," ","u","n","d","e","r","s","t","a","n","d"," ","w","h","e","r","e"," ","y","o","u","'","r","e"," ","c","o","m","i","n","g"," ","f","r","o","m",","," ","a","n","d"," ","I","'","d"," ","l","i","k","e"," ","t","o"," ","s","h","a","r","e"," ","s","o","m","e"," ","p","e","r","s","p","e","c","t","i","v","e",".">>,
    <<"T","h","a","t","'","s"," ","a"," ","t","h","o","u","g","h","t","f","u","l"," ","o","b","s","e","r","v","a","t","i","o","n","."," ","L","e","t"," ","m","e"," ","o","f","f","e","r"," ","s","o","m","e"," ","g","u","i","d","a","n","c","e",".">>,
    <<"I"," ","a","p","p","r","e","c","i","a","t","e"," ","y","o","u"," ","s","h","a","r","i","n","g"," ","t","h","a","t","."," ","H","e","r","e","'","s"," ","w","h","a","t"," ","I","'","v","e"," ","l","e","a","r","n","e","d"," ","t","h","a","t"," ","m","i","g","h","t"," ","h","e","l","p",".">>,
    <<"Y","o","u","'","r","e"," ","o","n"," ","t","h","e"," ","r","i","g","h","t"," ","t","r","a","c","k","."," ","C","o","n","s","i","d","e","r"," ","t","h","i","s"," ","a","p","p","r","o","a","c","h",":">> >>

calm_mentor_closings == <<
    <<"R","e","m","e","m","b","e","r",","," ","p","r","o","g","r","e","s","s"," ","t","a","k","e","s"," ","t","i","m","e",","," ","a","n","d"," ","y","o","u","'","r","e"," ","d","o","i","n","g"," ","g","r","e","a","t",".">>,
    <<"T","a","k","e"," ","i","t"," ","o","n","e"," ","s","t","e","p"," ","a","t"," ","a"," ","t","i","m","e",","," ","a","n","d"," ","t","r","u","s","t"," ","t","h","e"," ","p","r","o","c","e","s","s",".">>,
    <<"Y","o","u"," ","h","a","v","e"," ","t","h","e"," ","s","t","r","e","n","g","t","h"," ","t","o"," ","h","a","n","d","l","e"," ","t","h","i","s","."," ","I"," ","b","e","l","i","e","v","e"," ","i","n"," ","y","o","u",".">>,
    <<"K","e","e","p"," ","m","o","v","i","n","g"," ","f","o","r","w","a","r","d",","," ","a","n","d"," ","d","o","n","'","t"," ","h","e","s","i","t","a","t","e"," ","t","o"," ","r","e","a","c","h"," ","o","u","t"," ","i","f"," ","y","o","u"," ","n","e","e","d"," ","s","u","p","p","o","r","t",".">> >>

\* the replace calls of calm_mentor_style with the one for "You should"
\* made before those for "You should break", "You should take" and
\* "You should create"
calm_mentor_replacements_generic_first == <<
    <<<<"I"," ","t","h","i","n","k">>, <<"I"," ","b","e","l","i","e","v","e">>>>,
    <<<<"Y","o","u"," ","s","h","o","u","l","d">>, <<"Y","o","u"," ","m","i","g","h","t"," ","c","o","n","s","i","d","e","r">>>>,
    <<<<"Y","o","u"," ","s","h","o","u","l","d"," ","b","r","e","a","k">>, <<"Y","o","u"," ","m","i","g","h","t"," ","c","o","n","s","i","d","e","r"," ","b","r","e","a","k","i","n","g">>>>,
    <<<<"Y","o","u"," ","s","h","o","u","l","d"," ","t","a","k","e">>, <<"Y","o","u"," ","m","i","g","h","t"," ","c","o","n","s","i","d","e","r"," ","t","a","k","i","n","g">>>>,
    <<<<"Y","o","u"," ","s","h","o","u","l","d"," ","c","r","e","a","t","e">>, <<"Y","o","u"," ","m","i","g","h","t"," ","c","o","n","s","i","d","e","r"," ","c","r","e","a","t","i","n","g">>>>,
    <<<<"Y","o","u"," ","n","e","e","d"," ","t","o">>, <<"I","t"," ","w","o","u","l","d"," ","b","e"," ","h","e","l","p","f","u","l"," ","t","o">>>> >>

\* the replace calls of calm_mentor_style with one more whose source phrase
\* stands in the closing
calm_mentor_replacements_reaching_closing == <<
    <<<<"I"," ","t","h","i","n","k">>, <<"I"," ","b","e","l","i","e","v","e">>>>,
    <<<<"Y","o","u"," ","s","h","o","u","l","d"," ","b","r","e","a","k">>, <<"Y","o","u"," ","m","i","g","h","t"," ","c","o","n","s","i","d","e","r"," ","b","r","e","a","k","i","n","g">>>>,
    <<<<"Y","o","u"," ","s","h","o","u","l","d"," ","t","a","k","e">>, <<"Y","o","u"," ","m","i","g","h","t"," ","c","o","n","s","i","d","e","r"," ","t","a","k","i","n","g">>>>,
    <<<<"Y","o","u"," ","s","h","o","u","l","d"," ","c","r","e","a","t","e">>, <<"Y","o","u"," ","m","i","g","h","t"," ","c","o","n","s","i","d","e","r"," ","c","r","e","a","t","i","n","g">>>>,
    <<<<"Y","o","u"," ","s","h","o","u","l","d">>, <<"Y","o","u"," ","m","i","g","h","t"," ","c","o","n","s","i","d","e","r">>>>,
    <<<<"Y","o","u"," ","n","e","e","d"," ","t","o">>, <<"I","t"," ","w","o","u","l","d"," ","b","e"," ","h","e","l","p","f","u","l"," ","t","o">>>>,
    <<<<"p","r","o","g","r","e","s","s"," ","t","a","k","e","s"," ","t","i","m","e">>, <<"g","r","o","w","t","h"," ","i","s"," ","s","l","o","w">>>> >>

\* the replace calls of calm_mentor_style, in the order they are made
calm_mentor_replacements == <<
    <<<<"I"," ","t","h","i","n","k">>, <<"I"," ","b","e","l","i","e","v","e">>>>,
    <<<<"Y","o","u"," ","s","h","o","u","l","d"," ","b","r","e","a","k">>, <<"Y","o","u"," ","m","i","g","h","t"," ","c","o","n","s","i","d","e","r"," ","b","r","e","a","k","i","n","g">>>>,
    <<<<"Y","o","u"," ","s","h","o","u","l","d"," ","t","a","k","e">>, <<"Y","o","u"," ","m","i","g","h","t"," ","c","o","n","s","i","d","e","r"," ","t","a","k","i","n","g">>>>,
    <<<<"Y","o","u"," ","s","h","o","u","l","d"," ","c","r","e","a","t","e">>, <<"Y","o","u"," ","m","i","g","h","t"," ","c","o","n","s","i","d","e","r"," ","c","r","e","a","t","i","n","g">>>>,
    <<<<"Y","o","u"," ","s","h","o","u","l","d">>, <<"Y","o","u"," ","m","i","g","h","t"," ","c","o","n","s","i","d","e","r">>>>,
    <<<<"Y","o","u"," ","n","e","e","d"," ","t","o">>, <<"I","t"," ","w","o","u","l","d"," ","b","e"," ","h","e","l","p","f","u","l"," ","t","o">>>> >>

\* transformed = transformed.replace(old, new) for the pairs of a table,
\* one call after the other
RECURSIVE ReplaceAll(_, _, _)
ReplaceAll(text, table, k) ==
    IF k > Len(table) THEN text
    ELSE ReplaceAll(Replace(text, table[k][1], table[k][2]), table, k + 1)

calm_mentor_style(mem, base) ==
    LET user_name == get_user_name(mem)
        transformed == calm_mentor_openings[1] \o BlankLine \o base
        closed == transformed \o BlankLine \o calm_mentor_closings[1]
    IN  ReplaceAll(closed, calm_mentor_replacements, 1)

witty_friend_openings(user_name) == <<
    <<"H","e","y"," ">> \o user_name \o <<"!"," ","S","o"," ","h","e","r","e","'","s"," ","t","h","e"," ","t","h","i","n","g",".",".",".">>,
    <<"O","k","a","y"," ">> \o user_name \o <<","," ","l","e","t"," ","m","e"," ","b","r","e","a","k"," ","t","h","i","s"," ","d","o","w","n"," ","f","o","r"," ","y","o","u"," ","(","i","n"," ","t","h","e"," ","m","o","s","t"," ","f","u","n"," ","w","a","y"," ","p","o","s","s","i","b","l","e",")",":">>,
    <<"A","l","r","i","g","h","t",","," ">> \o user_name \o <<","," ","t","i","m","e"," ","f","o","r"," ","s","o","m","e"," ","r","e","a","l"," ","t","a","l","k"," ","(","b","u","t"," ","m","a","k","e"," ","i","t"," ","f","u","n",")",":">>,
    <<"H","e","y"," ">> \o user_name \o <<"!"," ","*","c","r","a","c","k","s"," ","k","n","u","c","k","l","e","s","*"," ","L","e","t","'","s"," ","d","i","v","e"," ","i","n","t","o"," ","t","h","i","s",":">> >>

witty_friend_closings == <<
    <<"H","o","p","e"," ","t","h","a","t"," ","h","e","l","p","s","!"," ","Y","o","u","'","v","e"," ","g","o","t"," ","t","h","i","s","!">>,
    <<"T","h","e","r","e"," ","y","o","u"," ","g","o","!"," ","N","o","w"," ","g","o"," ","b","e"," ","a","w","e","s","o","m","e","!">>,
    <<"T","h","a","t","'","s"," ","m","y"," ","t","a","k","e"," ","o","n"," ","i","t","!"," ","F","e","e","l"," ","f","r","e","e"," ","t","o"," ","h","i","t"," ","m","e"," ","u","p"," ","i","f"," ","y","o","u"," ","n","e","e","d"," ","a","n","y","t","h","i","n","g"," ","e","l","s","e","!">>,
    <<"H","o","p","e"," ","t","h","a","t"," ","m","a","d","e"," ","s","e","n","s","e","!"," ","Y","o","u","'","r","e"," ","d","o","i","n","g"," ","g","r","e","a","t",","," ","k","e","e","p"," ","i","t"," ","u","p","!">> >>

witty_friend_replacements == <<
    <<<<"I"," ","u","n","d","e","r","s","t","a","n","d">>, <<"I"," ","t","o","t","a","l","l","y"," ","g","e","t"," ","i","t">>>>,
    <<<<"Y","o","u"," ","s","h","o","u","l","d">>, <<"Y","o","u"," ","c","o","u","l","d"," ","t","o","t","a","l","l","y">>>>,
    <<<<"I","t"," ","i","s"," ","i","m","p","o","r","t","a","n","t">>, <<"H","e","r","e","'","s"," ","t","h","e"," ","d","e","a","l">>>>,
    <<<<"I"," ","r","e","c","o","m","m","e","n","d">>, <<"M","y"," ","t","w","o"," ","c","e","n","t","s","?">>>> >>

witty_friend_style(mem, base) ==
    LET user_name == get_user_name(mem)
        transformed == witty_friend_openings(user_name)[1] \o BlankLine \o base
        replaced == ReplaceAll(transformed, witty_friend_replacements, 1)
    IN  replaced \o BlankLine \o witty_friend_closings[1]

therapist_openings(user_name) == <<
    <<"I"," ","h","e","a","r"," ","y","o","u",","," ">> \o user_name \o <<"."," ","L","e","t","'","s"," ","e","x","p","l","o","r","e"," ","t","h","i","s"," ","t","o","g","e","t","h","e","r",".">>,
    <<"T","h","a","n","k"," ","y","o","u"," ","f","o","r"," ","s","h","a","r","i","n","g"," ","t","h","a","t"," ","w","i","t","h"," ","m","e",","," ">> \o user_name \o <<"."," ","I"," ","w","a","n","t"," ","t","o"," ","u","n","d","e","r","s","t","a","n","d"," ","b","e","t","t","e","r",".">>,
    <<"T","h","a","t"," ","s","o","u","n","d","s"," ","i","m","p","o","r","t","a","n","t"," ","t","o"," ","y","o","u",","," ">> \o user_name \o <<"."," ","C","a","n"," ","w","e"," ","u","n","p","a","c","k"," ","t","h","i","s"," ","a"," ","b","i","t","?">>,
    <<"I"," ","a","p","p","r","e","c","i","a","t","e"," ","y","o","u"," ","o","p","e","n","i","n","g"," ","u","p"," ","a","b","o","u","t"," ","t","h","i","s",","," ">> \o user_name
        \o <<"."," ","L","e","t","'","s"," ","l","o","o","k"," ","a","t"," ","w","h","a","t","'","s"," ","h","a","p","p","e","n","i","n","g"," ","h","e","r","e",".">> >>

therapist_replacements == <<
    <<<<"I"," ","t","h","i","n","k">>, <<"I","t"," ","s","e","e","m","s"," ","l","i","k","e">>>>,
    <<<<"Y","o","u"," ","s","h","o","u","l","d">>, <<"Y","o","u"," ","m","i","g","h","t"," ","f","i","n","d"," ","i","t"," ","h","e","l","p","f","u","l"," ","t","o">>>>,
    <<<<"Y","o","u"," ","n","e","e","d"," ","t","o">>, <<"W","h","a","t"," ","w","o","u","l","d"," ","i","t"," ","b","e"," ","l","i","k","e"," ","i","f"," ","y","o","u">>>> >>

reflective_questions == <<
    <<"H","o","w"," ","d","o","e","s"," ","t","h","a","t"," ","f","e","e","l"," ","t","o"," ","y","o","u","?">>,
    <<"W","h","a","t"," ","c","o","m","e","s"," ","u","p"," ","f","o","r"," ","y","o","u"," ","w","h","e","n"," ","y","o","u"," ","t","h","i","n","k"," ","a","b","o","u","t"," ","t","h","a","t","?">>,
    <<"W","h","a","t"," ","w","o","u","l","d"," ","i","t"," ","m","e","a","n"," ","f","o","r"," ","y","o","u"," ","i","f"," ","t","h","a","t"," ","c","h","a","n","g","e","d","?">>,
    <<"H","o","w"," ","w","o","u","l","d"," ","y","o","u"," ","l","i","k","e"," ","t","o"," ","m","o","v","e"," ","f","o","r","w","a","r","d"," ","w","i","t","h"," ","t","h","i","s","?">> >>

therapist_closings == <<
    <<"T","h","e","r","e","'","s"," ","n","o"," ","r","i","g","h","t"," ","o","r"," ","w","r","o","n","g"," ","a","n","s","w","e","r"," ","h","e","r","e","."," ","W","h","a","t"," ","m","a","t","t","e","r","s"," ","i","s"," ","w","h","a","t"," ","f","e","e","l","s"," ","a","u","t","h","e","n","t","i","c"," ","t","o"," ","y","o","u",".">>,
    <<"T","a","k","e"," ","y","o","u","r"," ","t","i","m","e"," ","w","i","t","h"," ","t","h","i","s","."," ","T","h","e","r","e","'","s"," ","n","o"," ","r","u","s","h",","," ","a","n","d"," ","y","o","u","r"," ","f","e","e","l","i","n","g","s"," ","a","r","e"," ","v","a","l","i","d",".">>,
    <<"I","'","m"," ","h","e","r","e"," ","t","o"," ","s","u","p","p","o","r","t"," ","y","o","u"," ","a","s"," ","y","o","u"," ","n","a","v","i","g","a","t","e"," ","t","h","i","s","."," ","H","o","w"," ","w","o","u","l","d"," ","y","o","u"," ","l","i","k","e"," ","t","o"," ","p","r","o","c","e","e","d","?">>,
    <<"R","e","m","e","m","b","e","r",","," ","t","h","i","s"," ","i","s"," ","y","o","u","r"," ","j","o","u","r","n","e","y",","," ","a","n","d"," ","y","o","u","'","r","e"," ","i","n"," ","c","o","n","t","r","o","l"," ","o","f"," ","t","h","e"," ","p","a","c","e",".">> >>

\* therapist_style with the reflective question appended after the closing
therapist_style_question_last(mem, base) ==
    LET user_name == get_user_name(mem)
        transformed == therapist_openings(user_name)[1] \o BlankLine \o base
        replaced == ReplaceAll(transformed, therapist_replacements, 1)
        closed == replaced \o BlankLine \o therapist_closings[1]
    IN  closed \o BlankLine \o reflective_questions[1]

therapist_style(mem, base) ==
    LET user_name == get_user_name(mem)
        transformed == therapist_openings(user_name)[1] \o BlankLine \o base
        replaced == ReplaceAll(transformed, therapist_replacements, 1)
        asked == replaced \o BlankLine \o reflective_questions[1]
    IN  asked \o BlankLine \o therapist_closings[1]

\* NormalizeStyle without the replacement of the spaces
NormalizeStyleLowerOnly(style_name) == Lower(style_name)

\* style.lower().replace(' ', '_')
NormalizeStyle(style_name) == Replace(Lower(style_name), <<" ">>, <<"_">>)

\* what a call returns: a text, or the error it raised and no text
Returned(text) == [output |-> Some(text), raised |-> None]
Raised(error) == [output |-> None, raised |-> Some(error)]

rewrite_response(mem, base, style_name) ==
    LET normalized == NormalizeStyle(style_name)
    IN  IF normalized = <<"c","a","l","m","_","m","e","n","t","o","r">> THEN Returned(calm_mentor_style(mem, base))
        ELSE IF normalized = <<"w","i","t","t","y","_","f","r","i","e","n","d">> THEN Returned(witty_friend_style(mem, base))
        ELSE IF normalized = <<"t","h","e","r","a","p","i","s","t">> THEN Returned(therapist_style(mem, base))
        ELSE Raised("ValueError")

demonstrate_improvement(mem, base) ==
    [before |-> base,
     calm_mentor |-> calm_mentor_style(mem, base),
     witty_friend |-> witty_friend_style(mem, base),
     therapist |-> therapist_style(mem, base)]

(***************************************************************************)
(* The inputs of the model.                                                *)
(***************************************************************************)
\* messages handed to extract_personal_facts
FactMessages == {
    <<"M","y"," ","n","a","m","e"," ","i","s"," ","S","a","r","a","h",".">>,
    <<"I","'","m"," ","B","o","b"," ","f","r","o","m"," ","O","s","l","o",".">>,
    <<"I"," ","a","m"," ","0"," ","y","e","a","r","s"," ","o","l","d",".">>,
    <<"I","'","m"," ","t","u","r","n","i","n","g"," ","3","3",".">>,
    <<"I"," ","w","o","r","k"," ","a","s"," ","a"," ","c","h","e","f"," ","a","t"," ","H","i","l","t","o","n",".">>,
    <<"I"," ","w","o","r","k"," ","a","s"," "," "," ","a","t"," ","G","o","o","g","l","e",".">>,
    <<"I","'","m"," ","a","l","l","e","r","g","i","c"," ","t","o"," ","p","e","a","n","u","t","s"," ","a","n","d"," ","s","h","e","l","l","f","i","s","h",".">>,
    <<"A","l","l","e","r","g","i","c"," ","t","o"," ","a","l","m","o","n","d","s"," ","a","n","d"," ","b","r","a","n","d","y","."," ","V","e","g","a","n",".">>,
    <<"I"," ","w","a","s"," ","b","o","r","n"," ","o","n"," ","M","a","y"," ","3","r","d",","," ","1","9","9","0",".">>,
    <<"I"," ","l","i","v","e"," ","i","n"," ","R","o","m","e",","," ","I"," ","a","m"," ","4","1",".">> }

\* the scenario of the preferences
ScenarioMessages == <<<<"I"," ","l","o","v","e"," ","p","i","z","z","a",".">>, <<"I"," ","h","a","t","e"," ","m","o","r","n","i","n","g","s",".">>, <<"M","y"," ","f","a","v","o","r","i","t","e"," ","c","o","l","o","r"," ","i","s"," ","b","l","u","e",".">>>>

\* messages handed to extract_preferences
PreferenceMessages == {
    <<"I"," ","l","o","v","e"," ","p","i","z","z","a",".">>,
    <<"I"," ","h","a","t","e"," ","m","o","r","n","i","n","g","s",".">>,
    <<"M","y"," ","f","a","v","o","r","i","t","e"," ","c","o","l","o","r"," ","i","s"," ","b","l","u","e",".">>,
    <<"M","y"," ","f","a","v","o","r","i","t","e"," ","i","s"," ","j","a","z","z",".">>,
    <<"I"," ","l","o","v","e"," ","p","i","z","z","a","!"," ","I"," ","e","n","j","o","y"," ","p","i","z","z","a",".">>,
    <<"I"," ","l","i","k","e"," ","i","t","."," ","I"," ","h","a","t","e"," ","i","t",".">>,
    <<"I"," ","c","a","n","'","t"," ","s","t","a","n","d"," ","t","h","e"," ","h","e","a","t",","," ","I"," ","h","a","t","e"," ","m","o","r","n","i","n","g","s","!">>,
    <<"I"," ","l","o","v","e"," ","t","e","a",","," ","e","s","p","e","c","i","a","l","l","y"," ","g","r","e","e","n",".">> }

\* messages handed to extract_emotions
EmotionMessages == {
    <<"I","'","m"," ","h","a","p","p","y"," ","a","n","d"," ","e","x","c","i","t","e","d","!">>,
    <<"E","x","c","i","t","e","d"," ","b","u","t"," ","n","e","r","v","o","u","s",".">>,
    <<"I"," ","f","e","e","l"," ","s","a","d",".">>,
    <<"S","o"," ","s","a","d",","," ","I"," ","m","i","s","s"," ","t","h","e","m",".">>,
    <<"N","o","t","h","i","n","g"," ","n","e","w",".">>,
    <<"I"," ","a","m"," ","C","A","L","M",".">>,
    <<"M","a","d"," ","a","n","d"," ","w","o","r","r","i","e","d",".">> }

\* the phrases base responses are put together from
Phrases == {
    <<"Y","o","u"," ","s","h","o","u","l","d"," ","t","a","k","e"," ","a"," ","b","r","e","a","k",".">>,
    <<"Y","o","u"," ","s","h","o","u","l","d">>,
    <<" ","b","r","e","a","k">>,
    <<" ","c","r","e","a","t","e">>,
    <<"I"," ","t","h","i","n","k"," ">>,
    <<"Y","o","u"," ","n","e","e","d"," ","t","o"," ","r","e","s","t",".">>,
    <<"I"," ","u","n","d","e","r","s","t","a","n","d","."," ","I","t"," ","i","s"," ","i","m","p","o","r","t","a","n","t","."," ","I"," ","r","e","c","o","m","m","e","n","d"," ","t","e","a",".">>,
    <<"R","e","s","t"," ","w","e","l","l",".">> }

BaseResponses == {Concat(l) : l \in ListsUpTo(Phrases, MaxPhrases)}

\* the style names handed to rewrite_response
StyleNames == {
    <<"c","a","l","m","_","m","e","n","t","o","r">>, <<"C","a","l","m"," ","M","e","n","t","o","r">>, <<"w","i","t","t","y"," ","f","r","i","e","n","d">>, <<"T","H","E","R","A","P","I","S","T">>,
    <<"s","a","r","c","a","s","t","i","c">>, <<"c","a","l","m"," "," ","m","e","n","t","o","r">> }

\* the memory argument of PersonalityEngine(): none, an empty dict, a dict
\* without personal facts, a memory the extractor built that holds no name,
\* one whose name is empty, and a memory the extractor built that holds a name
MemoryArguments == {
    None,
    Some(EmptyDict),
    Some([preferences |-> InitialPreferences]),
    Some(extract_all(<<<<"I"," ","l","o","v","e"," ","p","i","z","z","a",".">>>>)),
    Some([personal_facts |-> [name |-> << >>]]),
    Some(extract_all(<<<<"M","y"," ","n","a","m","e"," ","i","s"," ","S","a","r","a","h",".">>>>)) }

(***************************************************************************)
(* The state machine: one call on a MemoryExtractor or on a                *)
(* PersonalityEngine, with the arguments chosen before the call.           *)
(***************************************************************************)
NoResult == [k \in {} |-> None]

\* MemoryExtractor.__init__: the attributes of the object
ExtractorAttributes ==
    [emotion_keywords |-> emotion_keywords,
     like_indicators |-> like_indicators,
     dislike_indicators |-> dislike_indicators]

ExtractorIdle(inputs) ==
    /\ pc = "idle"
    /\ messages \in inputs
    /\ result = NoResult
    /\ memory = EmptyDict
    /\ base_response = << >>
    /\ style = << >>
    /\ output = None
    /\ raised = None
    /\ extractor = ExtractorAttributes
    /\ log = << >>

InitFacts == ExtractorIdle(ListsUpTo(FactMessages, MaxMessages))

InitPreferences ==
    ExtractorIdle(ListsUpTo(PreferenceMessages, MaxMessages) \cup {ScenarioMessages})

InitEmotions == ExtractorIdle(ListsUpTo(EmotionMessages, MaxMessages))

InitEngine ==
    /\ pc = "idle"
    /\ messages = << >>
    /\ result = NoResult
    /\ \E memory_arg \in MemoryArguments : memory = EngineMemory(memory_arg)
    /\ base_response \in BaseResponses
    /\ style \in StyleNames
    /\ output = None
    /\ raised = None
    /\ extractor = ExtractorAttributes
    /\ log = << >>

\* a call of an extractor method: it returns and leaves the message list alone
ExtractorCall(name, returned) ==
    /\ pc = "idle"
    /\ pc' = name
    /\ result' = returned
    /\ UNCHANGED <<messages, memory, base_response, style, output, raised, extractor, log>>

ExtractPersonalFacts == ExtractorCall("extract_personal_facts", extract_personal_facts(messages))

ExtractPreferences == ExtractorCall("extract_preferences", extract_preferences(messages))

ExtractEmotions == ExtractorCall("extract_emotions", extract_emotions(messages))

\* engine.rewrite_response(base_response, style)
RewriteResponse ==
    /\ pc = "idle"
    /\ pc' = "rewrite_response"
    /\ LET r == rewrite_response(memory, base_response, style)
       IN  output' = r.output /\ raised' = r.raised
    /\ UNCHANGED <<messages, result, memory, base_response, style, extractor, log>>

NextFacts == ExtractPersonalFacts
NextPreferences == ExtractPreferences
NextEmotions == ExtractEmotions
NextEngine == RewriteResponse

SpecFacts == InitFacts /\ [][NextFacts]_vars
SpecPreferences == InitPreferences /\ [][NextPreferences]_vars
SpecEmotions == InitEmotions /\ [][NextEmotions]_vars
SpecEngine == InitEngine /\ [][NextEngine]_vars

(***************************************************************************)
(* A session: calls made one after the other on one MemoryExtractor and on *)
(* one PersonalityEngine, as app.py makes them.                            *)
(***************************************************************************)
\* the message lists of a session
SessionMessageLists == {
    <<<<"M","y"," ","n","a","m","e"," ","i","s"," ","S","a","r","a","h",".">>, <<"I"," ","l","o","v","e"," ","p","i","z","z","a",".">>>>,
    <<<<"I"," ","f","e","e","l"," ","s","a","d",".">>>> }

\* the texts a session hands to rewrite_response and to demonstrate_improvement
RewrittenResponse == <<"Y","o","u"," ","s","h","o","u","l","d"," ","r","e","s","t","."," ","I"," ","t","h","i","n","k"," ","s","o",".">>
DemonstratedResponse == <<"I"," ","r","e","c","o","m","m","e","n","d"," ","t","e","a",".">>

\* the style names a session hands to rewrite_response
SessionStyleNames == {<<"C","a","l","m"," ","M","e","n","t","o","r">>, <<"t","h","e","r","a","p","i","s","t">>, <<"s","a","r","c","a","s","t","i","c">>}

\* the engine is built without a memory or with the memory extracted from
\* the session's messages
InitSession ==
    /\ pc = "idle"
    /\ messages \in SessionMessageLists
    /\ result = NoResult
    /\ memory \in {EngineMemory(None), EngineMemory(Some(extract_all(messages)))}
    /\ base_response = << >>
    /\ style = << >>
    /\ output = None
    /\ raised = None
    /\ extractor = ExtractorAttributes
    /\ log = << >>

\* SessionCall with a method that consumes the list it is handed
SessionCallConsuming(name, args, value) ==
    /\ Len(log) < MaxCalls
    /\ pc' = name
    /\ log' = Append(log, [call |-> name, args |-> args, value |-> value])
    /\ messages' = IF messages = << >> THEN messages ELSE Tail(messages)
    /\ UNCHANGED <<extractor, memory>>

\* a call on one of the two objects: no method assigns to an attribute of
\* its object or to its arguments
SessionCall(name, args, value) ==
    /\ Len(log) < MaxCalls
    /\ pc' = name
    /\ log' = Append(log, [call |-> name, args |-> args, value |-> value])
    /\ UNCHANGED <<extractor, messages, memory>>

\* a call of an extract_* method in a session
SessionExtractorCall(name, returned) ==
    /\ SessionCall(name, <<messages>>, returned)
    /\ result' = returned
    /\ UNCHANGED <<base_response, style, output, raised>>

SessionExtractAll == SessionExtractorCall("extract_all", extract_all(messages))

SessionExtractPersonalFacts ==
    SessionExtractorCall("extract_personal_facts", extract_personal_facts(messages))

SessionExtractPreferences ==
    SessionExtractorCall("extract_preferences", extract_preferences(messages))

SessionExtractEmotions ==
    SessionExtractorCall("extract_emotions", extract_emotions(messages))

\* what rewrite_response did, handed on to the state
SessionRewritten(text, style_name, r) ==
    /\ SessionCall("rewrite_response", <<text, style_name>>, r)
    /\ base_response' = text
    /\ style' = style_name
    /\ output' = r.output
    /\ raised' = r.raised
    /\ UNCHANGED result

SessionRewriteResponse ==
    \E style_name \in SessionStyleNames :
        SessionRewritten(RewrittenResponse, style_name,
                         rewrite_response(memory, RewrittenResponse, style_name))

SessionDemonstrateImprovement ==
    /\ SessionCall("demonstrate_improvement", <<DemonstratedResponse>>,
                   demonstrate_improvement(memory, DemonstratedResponse))
    /\ base_response' = DemonstratedResponse
    /\ UNCHANGED <<result, style, output, raised>>

NextSession ==
    \/ SessionExtractAll
    \/ SessionExtractPersonalFacts
    \/ SessionExtractPreferences
    \/ SessionExtractEmotions
    \/ SessionRewriteResponse
    \/ SessionDemonstrateImprovement

SpecSession == InitSession /\ [][NextSession]_vars

(***************************************************************************)
(* Properties of extract_personal_facts.                                   *)
(***************************************************************************)
MinOf(S) == CHOOSE a \in S : \A b \in S : a <= b

\* what one message alone sets a scalar field to (None if it sets nothing)
YieldOf(message, key) == FactsOfMessage(InitialFacts, message)[key]

\* the value of the earliest message of the list that yields one for the field
FirstYield(msgs, key) ==
    LET yielding == {i \in 1..Len(msgs) : YieldOf(msgs[i], key) # None}
    IN  IF yielding = {} THEN None ELSE YieldOf(msgs[MinOf(yielding)], key)

\* C1: extract_personal_facts never raises, and every scalar field it
\* returns holds the value extracted from the earliest message that yields
\* a value for that field: a later message never overwrites it.
C1_FirstValueKept ==
    pc = "extract_personal_facts" =>
        /\ raised = None
        /\ \A key \in ScalarKeys \cap DOMAIN result :
              FirstYield(messages, key) = Some(result[key])

\* "and" at position i as a word of its own: no letter before it or after it
WordAndAt(s, i) ==
    /\ StartsWithAt(s, <<"a","n","d">>, i)
    /\ ~(i > 1 /\ s[i - 1] \in Letter)
    /\ ~(i + 3 <= Len(s) /\ s[i + 3] \in Letter)

\* a text split on the word "and"
RECURSIVE SplitOnWordAnd(_)
SplitOnWordAnd(s) ==
    LET hits == {i \in 1..Len(s) : WordAndAt(s, i)}
    IN  IF hits = {} THEN <<s>>
        ELSE <<SubSeq(s, 1, MinOf(hits) - 1)>> \o SplitOnWordAnd(From(s, MinOf(hits) + 3))

\* the text after the first "allergic to " that some text follows, up to
\* the end of the sentence; None if the message has none
AllergyText(message_lower) ==
    LET lead == <<"a","l","l","e","r","g","i","c"," ","t","o"," ">>
        at == {i \in 1..Len(message_lower) :
                 /\ StartsWithAt(message_lower, lead, i)
                 /\ i + Len(lead) <= Len(message_lower)
                 /\ message_lower[i + Len(lead)] # "."}
        from == MinOf(at) + Len(lead)
        stops == {j \in from..Len(message_lower) : message_lower[j] = "."}
    IN  IF at = {} THEN None
        ELSE Some(SubSeq(message_lower, from,
                         IF stops = {} THEN Len(message_lower) ELSE MinOf(stops) - 1))

\* the allergies the messages name, in message order
RECURSIVE AllergiesNamed(_, _)
AllergiesNamed(msgs, n) ==
    IF n = 0 THEN << >>
    ELSE LET text == AllergyText(Lower(msgs[n]))
         IN  AllergiesNamed(msgs, n - 1)
             \o (IF text = None THEN << >> ELSE StripAll(SplitOnWordAnd(text[1])))

\* the list under a key of a returned dict, empty when the key is dropped
ListOf(dict, key) == IF key \in DOMAIN dict THEN dict[key] ELSE << >>

\* C8: the allergies are the segments, trimmed and in order, of the text
\* after "allergic to " split on the word "and" (not on the letters a-n-d
\* inside a longer word), accumulated over the messages in message order.
C8_AllergiesSplitOnWord ==
    pc = "extract_personal_facts" =>
        ListOf(result, "allergies") = AllergiesNamed(messages, Len(messages))

(***************************************************************************)
(* Properties of extract_emotions.                                         *)
(***************************************************************************)
TableIndex(e) == CHOOSE k \in 1..Len(emotion_keywords) : emotion_keywords[k].emotion = e

\* the messages that contain at least one keyword of the category
MatchingMessages(msgs, e) ==
    {i \in 1..Len(msgs) :
        \E kw \in SeqRange(emotion_keywords[TableIndex(e)].keywords) :
            Contains(Lower(msgs[i]), kw)}

\* the count a returned record gives a category (none is 0)
CountIn(res, e) == IF e \in DOMAIN res.emotion_counts THEN res.emotion_counts[e] ELSE 0

RECURSIVE SumOfCounts(_, _)
SumOfCounts(res, k) ==
    IF k = 0 THEN 0 ELSE SumOfCounts(res, k - 1) + CountIn(res, emotion_keywords[k].emotion)

\* C4: every category's count is the number of messages that contain at
\* least one of its keywords (a message adds at most 1 to a category and
\* may add to several), and total_emotional_messages is the sum of the counts.
C4_CountsPerMessage ==
    pc = "extract_emotions" =>
        /\ \A e \in Emotions : CountIn(result, e) = Cardinality(MatchingMessages(messages, e))
        /\ result.total_emotional_messages = SumOfCounts(result, Len(emotion_keywords))

\* the keywords of a category a message contains
KeywordsIn(message, e) ==
    {k \in 1..Len(emotion_keywords[TableIndex(e)].keywords) :
        Contains(Lower(message), emotion_keywords[TableIndex(e)].keywords[k])}

\* C4 witness: one message holds two keywords of happy and counts once for
\* it, another holds a happy and an anxious keyword and counts for both.
C4_Witness ==
    /\ pc = "extract_emotions"
    /\ Len(messages) = 2
    /\ Cardinality(KeywordsIn(messages[1], "happy")) = 2
    /\ KeywordsIn(messages[2], "happy") # {} /\ KeywordsIn(messages[2], "anxious") # {}
    /\ CountIn(result, "happy") = 2
    /\ CountIn(result, "anxious") = 1
    /\ result.total_emotional_messages = 3

\* category d received its first count before category e did: in an earlier
\* message, or in the same message and earlier in the table
CountedBefore(msgs, d, e) ==
    LET md == MinOf(MatchingMessages(msgs, d))
        me == MinOf(MatchingMessages(msgs, e))
    IN  md < me \/ (md = me /\ TableIndex(d) < TableIndex(e))

\* C5: dominant_emotion is null exactly when no message matched any
\* category; otherwise its count is the largest, and among the categories
\* with the largest count it is the one that was counted first.
C5_DominantEmotion ==
    pc = "extract_emotions" =>
        /\ result.dominant_emotion = None
              <=> \A e \in Emotions : MatchingMessages(messages, e) = {}
        /\ result.dominant_emotion # None =>
              LET d == result.dominant_emotion[1]
              IN  /\ d \in Emotions
                  /\ CountIn(result, d) > 0
                  /\ \A e \in Emotions : CountIn(result, e) <= CountIn(result, d)
                  /\ \A e \in Emotions \ {d} :
                        CountIn(result, e) = CountIn(result, d)
                            => CountedBefore(messages, d, e)

\* C5 witness: two categories share the largest count and the dominant one
\* comes later in the table than the other.
C5_Witness ==
    /\ pc = "extract_emotions"
    /\ result.dominant_emotion # None
    /\ \E e \in Emotions \ {result.dominant_emotion[1]} :
          /\ CountIn(result, e) = CountIn(result, result.dominant_emotion[1])
          /\ TableIndex(e) < TableIndex(result.dominant_emotion[1])

(***************************************************************************)
(* Properties of extract_preferences.                                      *)
(***************************************************************************)
NoRepeats(xs) == \A i, j \in 1..Len(xs) : i # j => xs[i] # xs[j]

\* what one message alone puts on the three lists
PreferencesIn(message) == PreferencesOfMessage(InitialPreferences, message)

PositionIn(xs, x) == MinOf({k \in 1..Len(xs) : xs[k] = x})

\* the messages that yield the item for the list
Yielding(msgs, key, item) == {k \in 1..Len(msgs) : InList(item, PreferencesIn(msgs[k])[key])}

\* item a is extracted before item b: in an earlier message, or earlier in
\* the same message
ExtractedBefore(msgs, key, a, b) ==
    LET ma == MinOf(Yielding(msgs, key, a))
        mb == MinOf(Yielding(msgs, key, b))
    IN  ma < mb \/ (ma = mb /\ PositionIn(PreferencesIn(msgs[ma])[key], a)
                                < PositionIn(PreferencesIn(msgs[ma])[key], b))

\* the list holds every item some message yields, once, in the order of
\* their first extraction
DedupedInOrder(msgs, key, xs) ==
    /\ NoRepeats(xs)
    /\ \A k \in 1..Len(msgs) : \A item \in SeqRange(PreferencesIn(msgs[k])[key]) : InList(item, xs)
    /\ \A i \in 1..Len(xs) : Yielding(msgs, key, xs[i]) # {}
    /\ \A i, j \in 1..Len(xs) : i < j => ExtractedBefore(msgs, key, xs[i], xs[j])

\* the favorites of every message, one list after the other
RECURSIVE FavoritesNamed(_, _)
FavoritesNamed(msgs, n) ==
    IF n = 0 THEN << >> ELSE FavoritesNamed(msgs, n - 1) \o PreferencesIn(msgs[n]).favorites

\* C6: likes and dislikes hold no repeated entry, every entry of the three
\* lists is longer than 2 characters, entries stand in the order of their
\* first extraction, and favorites is appended to without a duplicate check.
C6_PreferenceLists ==
    pc = "extract_preferences" =>
        /\ DedupedInOrder(messages, "likes", result.likes)
        /\ DedupedInOrder(messages, "dislikes", result.dislikes)
        /\ \A key \in {"likes", "dislikes", "favorites"} :
              \A i \in 1..Len(result[key]) : Len(result[key][i]) > 2
        /\ result.favorites = FavoritesNamed(messages, Len(messages))

\* C6 witness: two messages yield the same like and the same favorite; the
\* like is kept once, the favorite twice.
C6_Witness ==
    /\ pc = "extract_preferences"
    /\ Len(messages) = 2
    /\ PreferencesIn(messages[1]).likes # << >>
    /\ PreferencesIn(messages[1]).likes = PreferencesIn(messages[2]).likes
    /\ Len(result.likes) = Len(PreferencesIn(messages[1]).likes)
    /\ Len(result.favorites) = 2
    /\ result.favorites[1] = result.favorites[2]

\* C7: for the messages "I love pizza.", "I hate mornings." and "My favorite
\* color is blue.", likes contains "pizza", dislikes contains "mornings" and
\* favorites contains "blue".
C7_Scenario ==
    pc = "extract_preferences" /\ messages = ScenarioMessages =>
        /\ InList(<<"p","i","z","z","a">>, result.likes)
        /\ InList(<<"m","o","r","n","i","n","g","s">>, result.dislikes)
        /\ InList(<<"b","l","u","e">>, result.favorites)

\* the fields whose accumulated value is neither null nor an empty list
FieldsSet(facts) ==
    {k \in ScalarKeys : facts[k] # None} \cup {k \in ListKeys : facts[k] # << >>}

\* C12: the record extract_personal_facts returns omits a field if and only
\* if the field's accumulated value is null or an empty list: every scalar
\* field the scan set (a string, or an integer age of any value) and every
\* non-empty list field is in the result.
C12_OmitsOnlyUnset ==
    pc = "extract_personal_facts" =>
        DOMAIN result = FieldsSet(FactsAfter(messages, Len(messages)))

\* some message's job match gives this role and this company
JobMatchGives(msgs, role, employer) ==
    \E i \in 1..Len(msgs) :
        LET m == FirstMatch(job_patterns, 1, msgs[i])
        IN  m # None /\ Strip(m[1].group[1]) = role /\ Strip(m[1].group[2]) = employer

\* C13: the result holds job_role if and only if it holds company, both
\* taken from the same pattern match of the same message, and it holds city
\* if and only if it holds location, with equal values.
C13_SetTogether ==
    pc = "extract_personal_facts" =>
        /\ "job_role" \in DOMAIN result <=> "company" \in DOMAIN result
        /\ "job_role" \in DOMAIN result /\ "company" \in DOMAIN result
              => JobMatchGives(messages, result.job_role, result.company)
        /\ "city" \in DOMAIN result <=> "location" \in DOMAIN result
        /\ "city" \in DOMAIN result /\ "location" \in DOMAIN result
              => result.city = result.location

(***************************************************************************)
(* Properties of PersonalityEngine.                                        *)
(***************************************************************************)
\* a style name in lower case with every space turned into an underscore
Normalized(style_name) ==
    [k \in 1..Len(style_name) |->
        IF style_name[k] = " " THEN "_" ELSE LowerChar(style_name[k])]

\* the call of rewrite_response has returned or raised
Rewritten == pc = "rewrite_response"

\* the style the call was dispatched to
StyleIs(name) == Normalized(style) = name

\* C2: rewrite_response lowercases the style name and turns its spaces into
\* underscores; for calm_mentor, witty_friend and therapist it returns exactly
\* the result of that transform, for every other name it raises the
\* invalid-style error and returns no text; the memory is left unchanged.
C2_Dispatch ==
    [][pc = "idle" /\ pc' = "rewrite_response" =>
          /\ memory' = memory
          /\ IF StyleIs(<<"c","a","l","m","_","m","e","n","t","o","r">>)
             THEN output' = Some(calm_mentor_style(memory, base_response)) /\ raised' = None
             ELSE IF StyleIs(<<"w","i","t","t","y","_","f","r","i","e","n","d">>)
             THEN output' = Some(witty_friend_style(memory, base_response)) /\ raised' = None
             ELSE IF StyleIs(<<"t","h","e","r","a","p","i","s","t">>)
             THEN output' = Some(therapist_style(memory, base_response)) /\ raised' = None
             ELSE output' = None /\ raised' = Some("ValueError")]_vars

\* C2 witness: the style "sarcastic" raised the error and returned no text
C2_Witness ==
    /\ Rewritten
    /\ style = <<"s","a","r","c","a","s","t","i","c">>
    /\ raised = Some("ValueError")
    /\ output = None

\* the source phrases of every style's substitutions
SourcePhrases(table) == {table[k][1] : k \in 1..Len(table)}

\* the text holds none of the phrases
HoldsNone(text, phrases) == \A p \in phrases : ~Contains(text, p)

\* C3: for a base text that holds none of the style's source phrases the
\* output is the style's first opening, a blank line, the base text as it
\* is, for therapist a blank line and "How does that feel to you?", then a
\* blank line and the style's first closing, and nothing else.
C3_PlainLayout ==
    Rewritten =>
        /\ StyleIs(<<"c","a","l","m","_","m","e","n","t","o","r">>)
              /\ HoldsNone(base_response, SourcePhrases(calm_mentor_replacements))
              => output = Some(calm_mentor_openings[1] \o BlankLine \o base_response
                               \o BlankLine \o calm_mentor_closings[1])
        /\ StyleIs(<<"w","i","t","t","y","_","f","r","i","e","n","d">>)
              /\ HoldsNone(base_response, SourcePhrases(witty_friend_replacements))
              => output = Some(witty_friend_openings(get_user_name(memory))[1] \o BlankLine
                               \o base_response \o BlankLine \o witty_friend_closings[1])
        /\ StyleIs(<<"t","h","e","r","a","p","i","s","t">>)
              /\ HoldsNone(base_response, SourcePhrases(therapist_replacements))
              => output = Some(therapist_openings(get_user_name(memory))[1] \o BlankLine
                               \o base_response \o BlankLine \o <<"H","o","w"," ","d","o","e","s"," ","t","h","a","t"," ","f","e","e","l"," ","t","o"," ","y","o","u","?">>
                               \o BlankLine \o therapist_closings[1])

\* C3 witness: therapist rewrote a non-empty base text that holds none of
\* its source phrases, and the question stands between the text and the closing
C3_Witness ==
    /\ Rewritten
    /\ StyleIs(<<"t","h","e","r","a","p","i","s","t">>)
    /\ base_response = <<"R","e","s","t"," ","w","e","l","l",".">>
    /\ output # None
    /\ Contains(output[1], <<"R","e","s","t"," ","w","e","l","l",".","\n","\n","H","o","w"," ","d","o","e","s"," ","t","h","a","t"," ","f","e","e","l"," ","t","o"," ","y","o","u","?","\n","\n","T","h","e","r","e","'","s"," ","n","o"," ","r","i","g","h","t">>)

\* the rules the calm mentor puts on "You should": the three specific ones
\* come before the generic one
YouShouldRules == <<
    <<<<"Y","o","u"," ","s","h","o","u","l","d"," ","t","a","k","e">>, <<"Y","o","u"," ","m","i","g","h","t"," ","c","o","n","s","i","d","e","r"," ","t","a","k","i","n","g">>>>,
    <<<<"Y","o","u"," ","s","h","o","u","l","d"," ","b","r","e","a","k">>, <<"Y","o","u"," ","m","i","g","h","t"," ","c","o","n","s","i","d","e","r"," ","b","r","e","a","k","i","n","g">>>>,
    <<<<"Y","o","u"," ","s","h","o","u","l","d"," ","c","r","e","a","t","e">>, <<"Y","o","u"," ","m","i","g","h","t"," ","c","o","n","s","i","d","e","r"," ","c","r","e","a","t","i","n","g">>>>,
    <<<<"Y","o","u"," ","s","h","o","u","l","d">>, <<"Y","o","u"," ","m","i","g","h","t"," ","c","o","n","s","i","d","e","r">>>> >>

\* the other rules of the calm mentor
OtherCalmRules == <<
    <<<<"I"," ","t","h","i","n","k">>, <<"I"," ","b","e","l","i","e","v","e">>>>,
    <<<<"Y","o","u"," ","n","e","e","d"," ","t","o">>, <<"I","t"," ","w","o","u","l","d"," ","b","e"," ","h","e","l","p","f","u","l"," ","t","o">>>> >>

\* the first rule of the list whose source phrase stands at position i
RuleAt(rules, text, i) ==
    LET fits == {k \in 1..Len(rules) : StartsWithAt(text, rules[k][1], i)}
    IN  IF fits = {} THEN 0 ELSE CHOOSE k \in fits : \A h \in fits : k <= h

\* one pass over the text from left to right: at every occurrence of a source
\* phrase the first rule that fits rewrites it
RECURSIVE OnePass(_, _)
OnePass(rules, text) ==
    LET at == {i \in 1..Len(text) : RuleAt(rules, text, i) # 0}
        i == CHOOSE a \in at : \A b \in at : a <= b
        rule == rules[RuleAt(rules, text, i)]
    IN  IF at = {} THEN text
        ELSE SubSeq(text, 1, i - 1) \o rule[2] \o OnePass(rules, From(text, i + Len(rule[1])))

\* C9: in the calm mentor's output every "You should take", "You should
\* break" and "You should create" of the base text reads "You might consider
\* taking", "... breaking", "... creating", every other "You should" reads
\* "You might consider", and no "You might consider take/break/create" comes
\* of it; the base text "You should take a break." yields an output that
\* contains "You might consider taking a break.".
C9_SpecificBeforeGeneric ==
    Rewritten /\ StyleIs(<<"c","a","l","m","_","m","e","n","t","o","r">>) =>
        /\ output = Some(calm_mentor_openings[1] \o BlankLine
                         \o OnePass(YouShouldRules \o OtherCalmRules, base_response)
                         \o BlankLine \o calm_mentor_closings[1])
        /\ ~Contains(output[1], <<"Y","o","u"," ","m","i","g","h","t"," ","c","o","n","s","i","d","e","r"," ","t","a","k","e">>)
        /\ ~Contains(output[1], <<"Y","o","u"," ","m","i","g","h","t"," ","c","o","n","s","i","d","e","r"," ","c","r","e","a","t","e">>)
        /\ \A i \in 1..Len(output[1]) :
              StartsWithAt(output[1], <<"Y","o","u"," ","m","i","g","h","t"," ","c","o","n","s","i","d","e","r"," ","b","r","e","a","k">>, i)
                  => StartsWithAt(output[1], <<"Y","o","u"," ","m","i","g","h","t"," ","c","o","n","s","i","d","e","r"," ","b","r","e","a","k","i","n","g">>, i)
        /\ base_response = <<"Y","o","u"," ","s","h","o","u","l","d"," ","t","a","k","e"," ","a"," ","b","r","e","a","k",".">>
              => Contains(output[1], <<"Y","o","u"," ","m","i","g","h","t"," ","c","o","n","s","i","d","e","r"," ","t","a","k","i","n","g"," ","a"," ","b","r","e","a","k",".">>)

\* C9 witness: the calm mentor rewrote "You should take a break."
C9_Witness ==
    /\ Rewritten
    /\ StyleIs(<<"c","a","l","m","_","m","e","n","t","o","r">>)
    /\ base_response = <<"Y","o","u"," ","s","h","o","u","l","d"," ","t","a","k","e"," ","a"," ","b","r","e","a","k",".">>
    /\ output # None
    /\ Contains(output[1], <<"Y","o","u"," ","m","i","g","h","t"," ","c","o","n","s","i","d","e","r"," ","t","a","k","i","n","g"," ","a"," ","b","r","e","a","k",".">>)

\* the memory holds a name fact: a personal_facts record with a non-empty name
HasNameFact(mem) ==
    /\ "personal_facts" \in DOMAIN mem
    /\ "name" \in DOMAIN mem["personal_facts"]
    /\ mem["personal_facts"]["name"] # << >>

\* the display name of a memory
DisplayName(mem) == IF HasNameFact(mem) THEN mem["personal_facts"]["name"] ELSE <<"t","h","e","r","e">>

\* the text starts with the prefix
StartsWith(text, prefix) == StartsWithAt(text, prefix, 1)

\* C10: the name in the openings of witty_friend and therapist is the name
\* fact of the memory when it has a personal_facts record with a non-empty
\* name and "there" in every other case; without a name fact the witty
\* friend's output begins with "Hey there! So here's the thing...".
C10_DisplayName ==
    Rewritten =>
        /\ StyleIs(<<"w","i","t","t","y","_","f","r","i","e","n","d">>) =>
              /\ StartsWith(output[1], <<"H","e","y"," ">> \o DisplayName(memory)
                                        \o <<"!"," ","S","o"," ","h","e","r","e","'","s"," ","t","h","e"," ","t","h","i","n","g",".",".",".">>)
              /\ ~HasNameFact(memory)
                    => StartsWith(output[1], <<"H","e","y"," ","t","h","e","r","e","!"," ","S","o"," ","h","e","r","e","'","s"," ","t","h","e"," ","t","h","i","n","g",".",".",".">>)
        /\ StyleIs(<<"t","h","e","r","a","p","i","s","t">>) =>
              StartsWith(output[1], <<"I"," ","h","e","a","r"," ","y","o","u",","," ">> \o DisplayName(memory)
                                     \o <<"."," ","L","e","t","'","s"," ","e","x","p","l","o","r","e"," ","t","h","i","s"," ","t","o","g","e","t","h","e","r",".">>)

\* C10 witness: the witty friend greeted the name fact of an extracted memory
C10_Witness ==
    /\ Rewritten
    /\ StyleIs(<<"w","i","t","t","y","_","f","r","i","e","n","d">>)
    /\ HasNameFact(memory)
    /\ output # None
    /\ StartsWith(output[1], <<"H","e","y"," ","S","a","r","a","h","!"," ","S","o"," ","h","e","r","e","'","s"," ","t","h","e"," ","t","h","i","n","g",".",".",".">>)

\* the text ends with the suffix
EndsWith(text, suffix) ==
    /\ Len(suffix) <= Len(text)
    /\ SubSeq(text, Len(text) - Len(suffix) + 1, Len(text)) = suffix

\* the opening and the base text after the substitutions of a table
Substituted(opening, base, table) == ReplaceAll(opening \o BlankLine \o base, table, 1)

\* C14: in the three transforms the substitutions act on the opening and
\* the base text only; the therapist's question and the closing come after
\* them unaltered, so the output ends with a blank line and the style's
\* closing line verbatim, for every base text and every name.
C14_ClosingVerbatim ==
    Rewritten =>
        /\ StyleIs(<<"c","a","l","m","_","m","e","n","t","o","r">>) =>
              /\ output = Some(Substituted(calm_mentor_openings[1], base_response,
                                           calm_mentor_replacements)
                               \o BlankLine \o calm_mentor_closings[1])
              /\ EndsWith(output[1],
                          <<"\n","\n","R","e","m","e","m","b","e","r",","," ","p","r","o","g","r","e","s","s"," ","t","a","k","e","s"," ","t","i","m","e",","," ","a","n","d"," ","y","o","u","'","r","e"," ","d","o","i","n","g"," ","g","r","e","a","t",".">>)
        /\ StyleIs(<<"w","i","t","t","y","_","f","r","i","e","n","d">>) =>
              /\ output = Some(Substituted(witty_friend_openings(get_user_name(memory))[1],
                                           base_response, witty_friend_replacements)
                               \o BlankLine \o witty_friend_closings[1])
              /\ EndsWith(output[1], <<"\n","\n","H","o","p","e"," ","t","h","a","t"," ","h","e","l","p","s","!"," ","Y","o","u","'","v","e"," ","g","o","t"," ","t","h","i","s","!">>)
        /\ StyleIs(<<"t","h","e","r","a","p","i","s","t">>) =>
              /\ output = Some(Substituted(therapist_openings(get_user_name(memory))[1],
                                           base_response, therapist_replacements)
                               \o BlankLine \o reflective_questions[1]
                               \o BlankLine \o therapist_closings[1])
              /\ EndsWith(output[1],
                          <<"\n","\n","H","o","w"," ","d","o","e","s"," ","t","h","a","t"," ","f","e","e","l"," ","t","o"," ","y","o","u","?","\n","\n","T","h","e","r","e","'","s"," ","n","o"," ","r","i","g","h","t"," ","o","r"," ","w","r","o","n","g"," ","a","n","s","w","e","r"," ","h","e","r","e","."," ","W","h","a","t"," ","m","a","t","t","e","r","s"," ","i","s"," ","w","h","a","t"," ","f","e","e","l","s"," ","a","u","t","h","e","n","t","i","c"," ","t","o"," ","y","o","u",".">>)

\* C14 witness: the calm mentor substituted in a base text that ends with a
\* source phrase, and the closing follows it as it is
C14_Witness ==
    /\ Rewritten
    /\ StyleIs(<<"c","a","l","m","_","m","e","n","t","o","r">>)
    /\ EndsWith(base_response, <<"Y","o","u"," ","s","h","o","u","l","d">>)
    /\ output # None
    /\ EndsWith(output[1],
                <<"Y","o","u"," ","m","i","g","h","t"," ","c","o","n","s","i","d","e","r","\n","\n","R","e","m","e","m","b","e","r",","," ","p","r","o","g","r","e","s","s"," ","t","a","k","e","s"," ","t","i","m","e",","," ","a","n","d"," ","y","o","u","'","r","e"," ","d","o","i","n","g"," ","g","r","e","a","t",".">>)

(***************************************************************************)
(* Properties of a session of calls.                                       *)
(***************************************************************************)
\* the rule tables as __init__ wrote them
RuleTablesIntact(attributes) ==
    /\ attributes.emotion_keywords = emotion_keywords
    /\ attributes.like_indicators = like_indicators
    /\ attributes.dislike_indicators = dislike_indicators

\* calls of the same method with the same arguments returned the same value
Repeatable(calls) ==
    \A i, j \in 1..Len(calls) :
        calls[i].call = calls[j].call /\ calls[i].args = calls[j].args
            => calls[i].value = calls[j].value

\* every extract_all of the session returned the same record
SameRecordEveryTime(calls) ==
    \A i, j \in 1..Len(calls) :
        calls[i].call = "extract_all" /\ calls[j].call = "extract_all"
            => calls[i].value = calls[j].value

====
